---- MODULE Spec2Model ----
(***************************************************************************)
(* UANS_ChangeCapsuleBase: an anim-notify state that overrides attributes  *)
(* and collision settings of a capsule component between NotifyBegin and   *)
(* NotifyEnd, blending the attributes in and out in NotifyTick.            *)
(*                                                                         *)
(* Units.  Time is counted in units of KINDA_SMALL_NUMBER (1e-4 s), so the *)
(* epsilon of the code is one unit.  Floats are modelled on the integer    *)
(* grid: an alpha is an exact fraction <<num, den>>, and a lerp is floored *)
(* to the grid (it is exact at alpha 0 and alpha 1).  A scale component is *)
(* in hundredths, an FColor channel is a byte and an FLinearColor channel  *)
(* is in units of 1/255.                                                   *)
(*                                                                         *)
(* The capsule component is the engine's object: its setters are modelled  *)
(* as plain writes of the field they name, its getters as plain reads.     *)
(* The debug drawing of NotifyTick (lines 176-201) changes no state and is *)
(* left out.                                                               *)
(***************************************************************************)
EXTENDS Integers, Sequences, FiniteSets, TLC

VARIABLES
    cfg,                    \* the notify's editable properties (UPROPERTY)
    capsule,                \* the capsule component of the mesh's owner
    ElapsedTime,
    NotifyTotalDuration,
    bHasValidOriginals,
    CapsuleComp,            \* "Null" or "Capsule"
    OriginalRadius,
    OriginalHalfHeight,
    OriginalScale,
    OriginalLineThickness,
    OriginalShapeColor,
    TargetRadius,
    TargetHalfHeight,
    TargetScale,
    TargetLineThickness,
    TargetShapeColor,
    BlendInAlpha,
    BlendOutAlpha,
    OriginalCapsuleSettings,
    call,                   \* history: the last call, and whether it found the session active
    pre,                    \* history: the capsule just before the last successful NotifyBegin
    tick,                   \* history: phase and alpha of the last NotifyTick that acted
    begins,                 \* history: the number of NotifyBegin calls so far
    gates                   \* history: the modify flags at the last successful NotifyBegin

vars == <<cfg, capsule, ElapsedTime, NotifyTotalDuration, bHasValidOriginals,
          CapsuleComp, OriginalRadius, OriginalHalfHeight, OriginalScale,
          OriginalLineThickness, OriginalShapeColor, TargetRadius,
          TargetHalfHeight, TargetScale, TargetLineThickness, TargetShapeColor,
          BlendInAlpha, BlendOutAlpha, OriginalCapsuleSettings, call, pre, tick,
          begins, gates>>

session == <<ElapsedTime, NotifyTotalDuration, bHasValidOriginals,
             CapsuleComp, OriginalRadius, OriginalHalfHeight, OriginalScale,
             OriginalLineThickness, OriginalShapeColor, TargetRadius,
             TargetHalfHeight, TargetScale, TargetLineThickness, TargetShapeColor,
             BlendInAlpha, BlendOutAlpha, OriginalCapsuleSettings>>

----------------------------------------------------------------------------
(* Bounds of the model. *)

MaxBlendTime == 3
MaxTotalDuration == 4
MaxDeltaTime == 2
MaxElapsedTime == 4
MaxBegins == 2
ECC_MAX == 2

(* Program constants. *)

KINDA_SMALL_NUMBER == 1

Second == 10000 * KINDA_SMALL_NUMBER

----------------------------------------------------------------------------
(* Fractions: <<num, den>> with den > 0, in lowest terms. *)

RECURSIVE GCD(_, _)
GCD(a, b) == IF b = 0 THEN a ELSE GCD(b, a % b)

Abs(x) == IF x < 0 THEN -x ELSE x

Frac(n, d) ==
    LET g == GCD(Abs(n), d)
    IN  <<n \div g, d \div g>>

One == <<1, 1>>
Zero == <<0, 1>>

FracLE(a, b) == a[1] * b[2] <= b[1] * a[2]

OneMinus(a) == Frac(a[2] - a[1], a[2])

Clamp01(a) ==
    IF a[1] < 0 THEN Zero
    ELSE IF a[1] > a[2] THEN One
    ELSE a

(* Fault variant of Lerp: the two ends exchanged. *)
Lerp_Swapped(A, B, Alpha) == B + ((A - B) * Alpha[1]) \div Alpha[2]

(* FMath::Lerp(A, B, Alpha) = A + Alpha * (B - A), on the integer grid. *)
Lerp(A, B, Alpha) == A + ((B - A) * Alpha[1]) \div Alpha[2]

LerpVec(A, B, Alpha) == [i \in DOMAIN A |-> Lerp(A[i], B[i], Alpha)]

----------------------------------------------------------------------------
(* Colors.  FColor::ReinterpretAsLinear divides each byte by 255 and       *)
(* applies no gamma; FLinearColor::ToFColor(bSRGB = true) encodes R, G, B  *)
(* with the sRGB transfer function and quantizes A linearly.               *)

SRGBTable == <<
      0,  13,  22,  28,  34,  38,  42,  46,  50,  53,  56,  59,  61,  64,  66,  69,
     71,  73,  75,  77,  79,  81,  83,  85,  86,  88,  90,  92,  93,  95,  96,  98,
     99, 101, 102, 104, 105, 106, 108, 109, 110, 112, 113, 114, 115, 117, 118, 119,
    120, 121, 122, 124, 125, 126, 127, 128, 129, 130, 131, 132, 133, 134, 135, 136,
    137, 138, 139, 140, 141, 142, 143, 144, 145, 146, 147, 148, 148, 149, 150, 151,
    152, 153, 154, 155, 155, 156, 157, 158, 159, 159, 160, 161, 162, 163, 163, 164,
    165, 166, 167, 167, 168, 169, 170, 170, 171, 172, 173, 173, 174, 175, 175, 176,
    177, 178, 178, 179, 180, 180, 181, 182, 182, 183, 184, 185, 185, 186, 187, 187,
    188, 189, 189, 190, 190, 191, 192, 192, 193, 194, 194, 195, 196, 196, 197, 197,
    198, 199, 199, 200, 200, 201, 202, 202, 203, 203, 204, 205, 205, 206, 206, 207,
    208, 208, 209, 209, 210, 210, 211, 212, 212, 213, 213, 214, 214, 215, 215, 216,
    216, 217, 218, 218, 219, 219, 220, 220, 221, 221, 222, 222, 223, 223, 224, 224,
    225, 226, 226, 227, 227, 228, 228, 229, 229, 230, 230, 231, 231, 232, 232, 233,
    233, 234, 234, 235, 235, 236, 236, 237, 237, 238, 238, 238, 239, 239, 240, 240,
    241, 241, 242, 242, 243, 243, 244, 244, 245, 245, 246, 246, 246, 247, 247, 248,
    248, 249, 249, 250, 250, 251, 251, 251, 252, 252, 253, 253, 254, 254, 255, 255 >>

ReinterpretAsLinear(Color) == [i \in 1..4 |-> Color[i]]

Byte(v) == IF v < 0 THEN 0 ELSE IF v > 255 THEN 255 ELSE v

ToFColor(Linear) ==
    [i \in 1..4 |-> IF i = 4 THEN Byte(Linear[i])
                    ELSE SRGBTable[Byte(Linear[i]) + 1]]

----------------------------------------------------------------------------
(* FAlphaBlend, constructed from FAlphaBlendArgs: blends 0 -> 1 over       *)
(* BlendTime; a zero BlendTime is complete at once.                        *)

FAlphaBlend(BlendTime, BlendOption) ==
    [BlendTime          |-> BlendTime,
     BlendOption        |-> BlendOption,
     BlendTimeRemaining |-> BlendTime,
     AlphaLerp          |-> IF BlendTime <= 0 THEN One ELSE Zero]

IsComplete(B) == B.AlphaLerp = One

(* Fault variant of Update: the step is scaled by the whole blend time,   *)
(* not by the time remaining.                                              *)
Update_NoRemaining(B, InDeltaTime) ==
    IF IsComplete(B) THEN B
    ELSE IF B.BlendTimeRemaining > InDeltaTime
    THEN [B EXCEPT
            !.AlphaLerp = Frac(B.AlphaLerp[1] * B.BlendTime
                                 + (B.AlphaLerp[2] - B.AlphaLerp[1]) * InDeltaTime,
                               B.AlphaLerp[2] * B.BlendTime),
            !.BlendTimeRemaining = B.BlendTimeRemaining - InDeltaTime]
    ELSE [B EXCEPT !.AlphaLerp = One, !.BlendTimeRemaining = 0]

(* Fault variant of Update: the frame's own share, not accumulated. *)
Update_NoAccumulate(B, InDeltaTime) ==
    IF IsComplete(B) THEN B
    ELSE IF B.BlendTimeRemaining > InDeltaTime
    THEN [B EXCEPT !.AlphaLerp = Frac(InDeltaTime, B.BlendTime),
                   !.BlendTimeRemaining = B.BlendTimeRemaining - InDeltaTime]
    ELSE [B EXCEPT !.AlphaLerp = One, !.BlendTimeRemaining = 0]

Update(B, InDeltaTime) ==
    IF IsComplete(B) THEN B
    ELSE IF B.BlendTimeRemaining > InDeltaTime
    THEN [B EXCEPT
            !.AlphaLerp = Frac(B.AlphaLerp[1] * B.BlendTimeRemaining
                                 + (B.AlphaLerp[2] - B.AlphaLerp[1]) * InDeltaTime,
                               B.AlphaLerp[2] * B.BlendTimeRemaining),
            !.BlendTimeRemaining = B.BlendTimeRemaining - InDeltaTime]
    ELSE [B EXCEPT !.AlphaLerp = One, !.BlendTimeRemaining = 0]

(* AlphaToBlendOption: Linear is the identity, Cubic is 3a^2 - 2a^3. *)
AlphaToBlendOption(a, BlendOption) ==
    IF BlendOption = "Cubic"
    THEN Clamp01(Frac(3 * a[1] * a[1] * a[2] - 2 * a[1] * a[1] * a[1],
                      a[2] * a[2] * a[2]))
    ELSE a

GetBlendedValue(B) == AlphaToBlendOption(B.AlphaLerp, B.BlendOption)

(* FRuntimeFloatCurve: "None" has no keys; "Square" is x^2; "Half" is a    *)
(* single key of value 1/2; "Double" is 2x.                                *)
EaseCurves == {"None", "Square", "Half", "Double"}

GetNumKeys(Curve) == IF Curve = "None" THEN 0 ELSE IF Curve = "Half" THEN 1 ELSE 2

Eval(Curve, a) ==
    CASE Curve = "Square" -> Frac(a[1] * a[1], a[2] * a[2])
      [] Curve = "Half"   -> <<1, 2>>
      [] Curve = "Double" -> Frac(2 * a[1], a[2])
      [] OTHER            -> a

----------------------------------------------------------------------------
(* The capsule component.  ECollisionChannel is 0 .. ECC_MAX-1. *)

NoCapsule == "Null"

Channels == 0 .. (ECC_MAX - 1)

SetCapsuleRadius(c, Radius) == [c EXCEPT !.CapsuleRadius = Radius]
SetCapsuleHalfHeight(c, HalfHeight) == [c EXCEPT !.CapsuleHalfHeight = HalfHeight]
SetRelativeScale3D(c, Scale) == [c EXCEPT !.RelativeScale3D = Scale]
SetLineThickness(c, Thickness) == [c EXCEPT !.LineThickness = Thickness]
SetShapeColor(c, Color) == [c EXCEPT !.ShapeColor = Color]
SetCollisionEnabled(c, Mode) == [c EXCEPT !.CollisionEnabled = Mode]
SetCollisionProfileName(c, Name) == [c EXCEPT !.CollisionProfileName = Name]
SetGenerateOverlapEvents(c, b) == [c EXCEPT !.bGenerateOverlapEvents = b]
SetCollisionResponseToChannel(c, Chan, Resp) == [c EXCEPT !.Responses[Chan] = Resp]

(* Writes the pairs of a TMap<ECollisionChannel, ECollisionResponse>. *)
SetResponses(c, Map) ==
    [c EXCEPT !.Responses = [ch \in Channels |->
                               IF ch \in DOMAIN Map THEN Map[ch] ELSE c.Responses[ch]]]

(* FindCapsuleComponent is the subclass's locator: a mesh either has the   *)
(* capsule or it has none.                                                 *)
MeshComps == {"Null", "MeshWithoutCapsule", "MeshWithCapsule"}

FindCapsuleComponent(MeshComp) ==
    IF MeshComp = "MeshWithCapsule" THEN "Capsule" ELSE NoCapsule

----------------------------------------------------------------------------
(* Collision settings. *)

SaveOriginalCollisionSettings(c) ==
    [CollisionEnabled               |-> c.CollisionEnabled,
     bForceQueryOnly                |-> FALSE,
     bOverrideCollisionEnabled      |-> TRUE,
     CollisionProfileName           |-> c.CollisionProfileName,
     bOverrideCollisionProfileName  |-> TRUE,
     bGenerateOverlapEvents         |-> c.bGenerateOverlapEvents,
     bOverrideGenerateOverlapEvents |-> TRUE,
     CustomResponses                |-> [ch \in Channels |-> c.Responses[ch]],
     bOverrideCustomResponses       |-> TRUE]

(* Fault variant of RestoreOriginalCollisionSettings: the responses left out. *)
RestoreOriginalCollisionSettings_NoResponses(c, Saved) ==
    LET c1 == SetCollisionEnabled(c, Saved.CollisionEnabled)
        c2 == SetCollisionProfileName(c1, Saved.CollisionProfileName)
    IN  SetGenerateOverlapEvents(c2, Saved.bGenerateOverlapEvents)

RestoreOriginalCollisionSettings(c, Saved) ==
    LET c1 == SetCollisionEnabled(c, Saved.CollisionEnabled)
        c2 == SetCollisionProfileName(c1, Saved.CollisionProfileName)
        c3 == SetGenerateOverlapEvents(c2, Saved.bGenerateOverlapEvents)
    IN  SetResponses(c3, Saved.CustomResponses)

(* Fault variant of ApplyCollisionSettings: the overlap flag never written. *)
ApplyCollisionSettings_NoOverlap(c, S) ==
    LET NewMode == IF S.bForceQueryOnly THEN "QueryOnly" ELSE S.CollisionEnabled
        c1 == IF S.bOverrideCollisionEnabled
              THEN SetCollisionEnabled(c, NewMode) ELSE c
        c2 == IF S.bOverrideCollisionProfileName
              THEN SetCollisionProfileName(c1, S.CollisionProfileName) ELSE c1
    IN  IF S.bOverrideCustomResponses
        THEN SetResponses(c2, S.CustomResponses) ELSE c2

(* Fault variant of ApplyCollisionSettings: bForceQueryOnly ignored. *)
ApplyCollisionSettings_NoForce(c, S) ==
    LET c1 == IF S.bOverrideCollisionEnabled
              THEN SetCollisionEnabled(c, S.CollisionEnabled) ELSE c
        c2 == IF S.bOverrideCollisionProfileName
              THEN SetCollisionProfileName(c1, S.CollisionProfileName) ELSE c1
        c3 == IF S.bOverrideGenerateOverlapEvents
              THEN SetGenerateOverlapEvents(c2, S.bGenerateOverlapEvents) ELSE c2
    IN  IF S.bOverrideCustomResponses
        THEN SetResponses(c3, S.CustomResponses) ELSE c3

(* Fault variant of ApplyCollisionSettings: the profile name written       *)
(* whatever its override flag is.                                          *)
ApplyCollisionSettings_Unscoped(c, S) ==
    LET NewMode == IF S.bForceQueryOnly THEN "QueryOnly" ELSE S.CollisionEnabled
        c1 == IF S.bOverrideCollisionEnabled
              THEN SetCollisionEnabled(c, NewMode) ELSE c
        c2 == SetCollisionProfileName(c1, S.CollisionProfileName)
        c3 == IF S.bOverrideGenerateOverlapEvents
              THEN SetGenerateOverlapEvents(c2, S.bGenerateOverlapEvents) ELSE c2
    IN  IF S.bOverrideCustomResponses
        THEN SetResponses(c3, S.CustomResponses) ELSE c3

ApplyCollisionSettings(c, S) ==
    LET NewMode == IF S.bForceQueryOnly THEN "QueryOnly" ELSE S.CollisionEnabled
        c1 == IF S.bOverrideCollisionEnabled
              THEN SetCollisionEnabled(c, NewMode) ELSE c
        c2 == IF S.bOverrideCollisionProfileName
              THEN SetCollisionProfileName(c1, S.CollisionProfileName) ELSE c1
        c3 == IF S.bOverrideGenerateOverlapEvents
              THEN SetGenerateOverlapEvents(c2, S.bGenerateOverlapEvents) ELSE c2
    IN  IF S.bOverrideCustomResponses
        THEN SetResponses(c3, S.CustomResponses) ELSE c3

----------------------------------------------------------------------------
(* Fault variant of SessionInactive: the guard left out. *)
SessionInactive_Unguarded == FALSE

(* The guard of NotifyTick (line 104) and of NotifyEnd (line 212). *)
SessionInactive == ~bHasValidOriginals \/ CapsuleComp = NoCapsule

(* The session is active: originals are valid and a capsule is held. *)
Active == bHasValidOriginals /\ CapsuleComp # NoCapsule

NoTick ==
    [phase |-> "None", raw |-> One, alpha |-> One,
     prevPhase |-> "None", prevAlpha |-> One]

(* The five modify flags of the configuration. *)
ModifyFlags ==
    [Radius        |-> cfg.bModifyRadius,
     HalfHeight    |-> cfg.bModifyHalfHeight,
     Scale         |-> cfg.bModifyScale,
     LineThickness |-> cfg.bModifyLineThickness,
     ShapeColor    |-> cfg.bModifyShapeColor]

----------------------------------------------------------------------------
(* NotifyBegin. *)

(* Fault variant of InstantBlendIn: a blend-in of exactly the epsilon is    *)
(* not taken as instant.                                                   *)
InstantBlendIn_Strict(BlendTimeIn) == BlendTimeIn < KINDA_SMALL_NUMBER

(* Lines 66-88: the instant blend-in writes the targets at once. *)
InstantBlendIn(BlendTimeIn) == BlendTimeIn <= KINDA_SMALL_NUMBER

SnapToTarget(c, Radius, HalfHeight, Scale, Thickness, Color) ==
    LET c1 == IF cfg.bModifyRadius THEN SetCapsuleRadius(c, Radius) ELSE c
        c2 == IF cfg.bModifyHalfHeight THEN SetCapsuleHalfHeight(c1, HalfHeight) ELSE c1
        c3 == IF cfg.bModifyScale THEN SetRelativeScale3D(c2, Scale) ELSE c2
        c4 == IF cfg.bModifyLineThickness THEN SetLineThickness(c3, Thickness) ELSE c3
    IN  IF cfg.bModifyShapeColor THEN SetShapeColor(c4, ToFColor(Color)) ELSE c4

(* Lines 49-63: a blend time at or below the epsilon becomes 0. *)
BlendArgsTime(BlendTime) == IF BlendTime > KINDA_SMALL_NUMBER THEN BlendTime ELSE 0

(* Fault variant of BeginWithoutCapsule: the session's flag and capsule    *)
(* are not reset before the return.                                        *)
BeginWithoutCapsule_KeepsSession(TotalDuration) ==
    /\ ElapsedTime' = 0
    /\ NotifyTotalDuration' = TotalDuration
    /\ tick' = NoTick
    /\ begins' = begins + 1
    /\ call' = [op |-> "Begin", acted |-> FALSE]
    /\ UNCHANGED <<cfg, capsule, pre, gates, bHasValidOriginals, CapsuleComp,
                   OriginalRadius, OriginalHalfHeight,
                   OriginalScale, OriginalLineThickness, OriginalShapeColor,
                   TargetRadius, TargetHalfHeight, TargetScale,
                   TargetLineThickness, TargetShapeColor, BlendInAlpha,
                   BlendOutAlpha, OriginalCapsuleSettings>>

(* Lines 17-32: the reset, and the return when there is no capsule. *)
BeginWithoutCapsule(TotalDuration) ==
    /\ ElapsedTime' = 0
    /\ NotifyTotalDuration' = TotalDuration
    /\ bHasValidOriginals' = FALSE
    /\ CapsuleComp' = NoCapsule
    /\ tick' = NoTick
    /\ begins' = begins + 1
    /\ call' = [op |-> "Begin", acted |-> FALSE]
    /\ UNCHANGED <<cfg, capsule, pre, gates, OriginalRadius, OriginalHalfHeight,
                   OriginalScale, OriginalLineThickness, OriginalShapeColor,
                   TargetRadius, TargetHalfHeight, TargetScale,
                   TargetLineThickness, TargetShapeColor, BlendInAlpha,
                   BlendOutAlpha, OriginalCapsuleSettings>>

(* Lines 17-92 with a capsule found. *)
BeginWithCapsule(Capsule, TotalDuration) ==
    /\ ElapsedTime' = 0
    /\ NotifyTotalDuration' = TotalDuration
    /\ CapsuleComp' = Capsule
    /\ OriginalRadius' = capsule.CapsuleRadius
    /\ OriginalHalfHeight' = capsule.CapsuleHalfHeight
    /\ OriginalScale' = capsule.RelativeScale3D
    /\ OriginalShapeColor' = ReinterpretAsLinear(capsule.ShapeColor)
    /\ UNCHANGED <<cfg, OriginalLineThickness>>
    /\ TargetRadius' =
         IF cfg.bModifyRadius THEN cfg.NewRadius ELSE OriginalRadius'
    /\ TargetHalfHeight' =
         IF cfg.bModifyHalfHeight THEN cfg.NewHalfHeight ELSE OriginalHalfHeight'
    /\ TargetScale' =
         IF cfg.bModifyScale THEN cfg.NewScale ELSE OriginalScale'
    /\ TargetLineThickness' =
         IF cfg.bModifyLineThickness THEN cfg.NewLineThickness
         ELSE OriginalLineThickness
    /\ TargetShapeColor' =
         IF cfg.bModifyShapeColor THEN cfg.NewShapeColor ELSE OriginalShapeColor'
    /\ bHasValidOriginals' = TRUE
    /\ BlendInAlpha' = FAlphaBlend(BlendArgsTime(cfg.BlendTimeIn), cfg.BlendOptionIn)
    /\ BlendOutAlpha' = FAlphaBlend(BlendArgsTime(cfg.BlendTimeOut), cfg.BlendOptionOut)
    /\ LET snapped ==
             IF InstantBlendIn(cfg.BlendTimeIn)
             THEN SnapToTarget(capsule, TargetRadius', TargetHalfHeight',
                               TargetScale', TargetLineThickness',
                               TargetShapeColor')
             ELSE capsule
       IN  /\ OriginalCapsuleSettings' = SaveOriginalCollisionSettings(snapped)
           /\ capsule' = ApplyCollisionSettings(snapped, cfg.CapsuleCollisionSettings)
    /\ tick' = NoTick
    /\ begins' = begins + 1
    /\ pre' = capsule
    /\ gates' = ModifyFlags
    /\ call' = [op |-> "Begin", acted |-> TRUE]

NotifyBegin(MeshComp, TotalDuration) ==
    IF MeshComp = "Null" \/ FindCapsuleComponent(MeshComp) = NoCapsule
    THEN BeginWithoutCapsule(TotalDuration)
    ELSE BeginWithCapsule(FindCapsuleComponent(MeshComp), TotalDuration)

----------------------------------------------------------------------------
(* NotifyTick. *)

(* Fault variant of Phase: the hold test without its upper end. *)
Phase_HoldPastBlendIn(Elapsed) ==
    IF cfg.BlendTimeIn > KINDA_SMALL_NUMBER /\ Elapsed < cfg.BlendTimeIn
    THEN "BlendIn"
    ELSE IF Elapsed >= cfg.BlendTimeIn
    THEN "Hold"
    ELSE IF cfg.BlendTimeOut > KINDA_SMALL_NUMBER
            /\ Elapsed > NotifyTotalDuration - cfg.BlendTimeOut
    THEN "BlendOut"
    ELSE "Fallback"

(* Fault variant of Phase: the hold test exclusive at its upper end and    *)
(* the blend-out test inclusive.                                           *)
Phase_BlendOutAtBoundary(Elapsed) ==
    IF cfg.BlendTimeIn > KINDA_SMALL_NUMBER /\ Elapsed < cfg.BlendTimeIn
    THEN "BlendIn"
    ELSE IF Elapsed >= cfg.BlendTimeIn
            /\ Elapsed < NotifyTotalDuration - cfg.BlendTimeOut
    THEN "Hold"
    ELSE IF cfg.BlendTimeOut > KINDA_SMALL_NUMBER
            /\ Elapsed >= NotifyTotalDuration - cfg.BlendTimeOut
    THEN "BlendOut"
    ELSE "Fallback"

(* Lines 114-132: the phase tests, top to bottom. *)
Phase(Elapsed) ==
    IF cfg.BlendTimeIn > KINDA_SMALL_NUMBER /\ Elapsed < cfg.BlendTimeIn
    THEN "BlendIn"
    ELSE IF Elapsed >= cfg.BlendTimeIn
            /\ Elapsed <= NotifyTotalDuration - cfg.BlendTimeOut
    THEN "Hold"
    ELSE IF cfg.BlendTimeOut > KINDA_SMALL_NUMBER
            /\ Elapsed > NotifyTotalDuration - cfg.BlendTimeOut
    THEN "BlendOut"
    ELSE "Fallback"

(* Lines 136-141: the optional ease curve remaps the clamped alpha. *)
EaseAlpha(RawAlpha) ==
    IF GetNumKeys(cfg.EaseCurve) > 0
    THEN Clamp01(Eval(cfg.EaseCurve, RawAlpha))
    ELSE RawAlpha

(* Fault variant of LerpToTarget: every property written, modified or not. *)
LerpToTarget_Unconditional(c, RawAlpha) ==
    LET c1 == SetCapsuleRadius(c, Lerp(OriginalRadius, TargetRadius, RawAlpha))
        c2 == SetCapsuleHalfHeight(c1, Lerp(OriginalHalfHeight, TargetHalfHeight, RawAlpha))
        c3 == SetRelativeScale3D(c2, LerpVec(OriginalScale, TargetScale, RawAlpha))
        c4 == SetLineThickness(c3, Lerp(OriginalLineThickness, TargetLineThickness, RawAlpha))
    IN  SetShapeColor(c4, ToFColor(LerpVec(OriginalShapeColor, TargetShapeColor, RawAlpha)))

(* Lines 150-174: each modified property is written at its lerped value. *)
LerpToTarget(c, RawAlpha) ==
    LET c1 == IF cfg.bModifyRadius
              THEN SetCapsuleRadius(c, Lerp(OriginalRadius, TargetRadius, RawAlpha))
              ELSE c
        c2 == IF cfg.bModifyHalfHeight
              THEN SetCapsuleHalfHeight(c1, Lerp(OriginalHalfHeight, TargetHalfHeight, RawAlpha))
              ELSE c1
        c3 == IF cfg.bModifyScale
              THEN SetRelativeScale3D(c2, LerpVec(OriginalScale, TargetScale, RawAlpha))
              ELSE c2
        c4 == IF cfg.bModifyLineThickness
              THEN SetLineThickness(c3, Lerp(OriginalLineThickness, TargetLineThickness, RawAlpha))
              ELSE c3
    IN  IF cfg.bModifyShapeColor
        THEN SetShapeColor(c4, ToFColor(LerpVec(OriginalShapeColor, TargetShapeColor, RawAlpha)))
        ELSE c4

(* Fault variant of TickKeepsSnapshot: the original radius is captured     *)
(* again on every tick.                                                    *)
TickKeepsSnapshot_Recapture ==
    /\ OriginalRadius' = capsule.CapsuleRadius
    /\ UNCHANGED <<NotifyTotalDuration, OriginalHalfHeight,
                   OriginalScale, OriginalLineThickness, OriginalShapeColor,
                   TargetRadius, TargetHalfHeight, TargetScale,
                   TargetLineThickness, TargetShapeColor,
                   OriginalCapsuleSettings>>

(* Lines 109-174 assign none of the originals, the targets, the total      *)
(* duration or the collision snapshot.                                     *)
TickKeepsSnapshot ==
    UNCHANGED <<NotifyTotalDuration, OriginalRadius, OriginalHalfHeight,
                OriginalScale, OriginalLineThickness, OriginalShapeColor,
                TargetRadius, TargetHalfHeight, TargetScale,
                TargetLineThickness, TargetShapeColor,
                OriginalCapsuleSettings>>

NotifyTick(FrameDeltaTime) ==
    IF SessionInactive
    THEN /\ call' = [op |-> "Tick", acted |-> FALSE]
         /\ UNCHANGED <<cfg, capsule, session, pre, tick, begins, gates>>
    ELSE LET Elapsed  == ElapsedTime + FrameDeltaTime
             phase    == Phase(Elapsed)
             NewIn    == IF phase = "BlendIn"
                         THEN Update(BlendInAlpha, FrameDeltaTime) ELSE BlendInAlpha
             NewOut   == IF phase = "BlendOut"
                         THEN Update(BlendOutAlpha, FrameDeltaTime) ELSE BlendOutAlpha
             Raw      == CASE phase = "BlendIn"  -> GetBlendedValue(NewIn)
                           [] phase = "BlendOut" -> OneMinus(GetBlendedValue(NewOut))
                           [] OTHER              -> One
             RawAlpha == EaseAlpha(Clamp01(Raw))
         IN  /\ ElapsedTime' = Elapsed
             /\ BlendInAlpha' = NewIn
             /\ BlendOutAlpha' = NewOut
             /\ capsule' = LerpToTarget(capsule, RawAlpha)
             /\ tick' = [phase |-> phase, raw |-> Clamp01(Raw), alpha |-> RawAlpha,
                         prevPhase |-> tick.phase, prevAlpha |-> tick.alpha]
             /\ call' = [op |-> "Tick", acted |-> TRUE]
             /\ TickKeepsSnapshot
             /\ UNCHANGED <<cfg, pre, begins, gates, bHasValidOriginals, CapsuleComp>>

----------------------------------------------------------------------------
(* NotifyEnd. *)

(* Lines 217-237: each modified property is written at its stored original. *)
RestoreOriginals(c) ==
    LET c1 == IF cfg.bModifyRadius THEN SetCapsuleRadius(c, OriginalRadius) ELSE c
        c2 == IF cfg.bModifyHalfHeight
              THEN SetCapsuleHalfHeight(c1, OriginalHalfHeight) ELSE c1
        c3 == IF cfg.bModifyScale THEN SetRelativeScale3D(c2, OriginalScale) ELSE c2
        c4 == IF cfg.bModifyLineThickness
              THEN SetLineThickness(c3, OriginalLineThickness) ELSE c3
    IN  IF cfg.bModifyShapeColor
        THEN SetShapeColor(c4, ToFColor(OriginalShapeColor)) ELSE c4

NotifyEnd ==
    IF SessionInactive
    THEN /\ call' = [op |-> "End", acted |-> FALSE]
         /\ UNCHANGED <<cfg, capsule, session, pre, tick, begins, gates>>
    ELSE /\ capsule' = RestoreOriginalCollisionSettings(RestoreOriginals(capsule),
                                                        OriginalCapsuleSettings)
         /\ CapsuleComp' = NoCapsule
         /\ bHasValidOriginals' = FALSE
         /\ ElapsedTime' = 0
         /\ NotifyTotalDuration' = 0
         /\ tick' = NoTick
         /\ call' = [op |-> "End", acted |-> TRUE]
         /\ UNCHANGED <<cfg, pre, begins, gates, OriginalRadius, OriginalHalfHeight, OriginalScale,
                        OriginalLineThickness, OriginalShapeColor, TargetRadius,
                        TargetHalfHeight, TargetScale, TargetLineThickness,
                        TargetShapeColor, BlendInAlpha, BlendOutAlpha,
                        OriginalCapsuleSettings>>

----------------------------------------------------------------------------
(* Configurations and initial states. *)

DefaultCollision ==
    [bOverrideCollisionEnabled      |-> FALSE,
     CollisionEnabled               |-> "NoCollision",
     bForceQueryOnly                |-> FALSE,
     bOverrideCollisionProfileName  |-> FALSE,
     CollisionProfileName           |-> "OverlapAll",
     bOverrideGenerateOverlapEvents |-> FALSE,
     bGenerateOverlapEvents         |-> FALSE,
     bOverrideCustomResponses       |-> FALSE,
     CustomResponses                |-> (0 :> "Ignore")]

BaseConfig ==
    [bModifyRadius        |-> FALSE, NewRadius        |-> 50,
     bModifyHalfHeight    |-> FALSE, NewHalfHeight    |-> 60,
     bModifyScale         |-> FALSE, NewScale         |-> <<200, 200, 50>>,
     bModifyLineThickness |-> FALSE, NewLineThickness |-> 5,
     bModifyShapeColor    |-> FALSE, NewShapeColor    |-> <<255, 0, 128, 255>>,
     BlendTimeIn   |-> 0,        BlendTimeOut   |-> 0,
     BlendOptionIn |-> "Linear", BlendOptionOut |-> "Linear",
     EaseCurve     |-> "None",
     CapsuleCollisionSettings |-> DefaultCollision]

BlendTimes == 0 .. MaxBlendTime

(* Every combination of the five modify flags, with an instant blend-in    *)
(* (zero, or exactly the epsilon) or a real one, and with or without a     *)
(* blend-out.                                                              *)
AttributeConfigs ==
    {[BaseConfig EXCEPT !.bModifyRadius = f[1], !.bModifyHalfHeight = f[2],
                        !.bModifyScale = f[3], !.bModifyLineThickness = f[4],
                        !.bModifyShapeColor = f[5],
                        !.BlendTimeIn = i, !.BlendTimeOut = o] :
        f \in [1..5 -> BOOLEAN],
        i \in {0, KINDA_SMALL_NUMBER, MaxBlendTime}, o \in {0, MaxBlendTime}}

(* Every pair of blend times. *)
TimingConfigs ==
    {[BaseConfig EXCEPT !.bModifyRadius = TRUE, !.BlendTimeIn = i, !.BlendTimeOut = o] :
        i \in BlendTimes, o \in BlendTimes}

(* Every combination of the four collision override flags. *)
CollisionConfigs ==
    {[BaseConfig EXCEPT
        !.bModifyRadius = TRUE, !.BlendTimeIn = i,
        !.CapsuleCollisionSettings =
            [DefaultCollision EXCEPT !.bOverrideCollisionEnabled = g[1],
                                     !.bOverrideCollisionProfileName = g[2],
                                     !.bOverrideGenerateOverlapEvents = g[3],
                                     !.bOverrideCustomResponses = g[4],
                                     !.bForceQueryOnly = q]] :
        g \in [1..4 -> BOOLEAN], q \in BOOLEAN, i \in {0}}

AllOverrides ==
    [DefaultCollision EXCEPT !.bOverrideCollisionEnabled = TRUE,
                             !.bOverrideCollisionProfileName = TRUE,
                             !.bOverrideGenerateOverlapEvents = TRUE,
                             !.bOverrideCustomResponses = TRUE]

(* Blend shapes and ease curves, with a real blend-in and every collision  *)
(* override.                                                               *)
ShapeConfigs ==
    {[BaseConfig EXCEPT !.bModifyRadius = TRUE, !.bModifyShapeColor = TRUE,
                        !.BlendTimeIn = MaxBlendTime, !.BlendTimeOut = MaxBlendTime,
                        !.BlendOptionIn = bi, !.BlendOptionOut = bo,
                        !.EaseCurve = e,
                        !.CapsuleCollisionSettings = AllOverrides] :
        bi \in {"Linear", "Cubic"}, bo \in {"Linear", "Cubic"}, e \in EaseCurves}

Configs == AttributeConfigs \cup TimingConfigs \cup CollisionConfigs \cup ShapeConfigs

InitialCapsule ==
    [CapsuleRadius          |-> 30,
     CapsuleHalfHeight      |-> 90,
     RelativeScale3D        |-> <<100, 100, 100>>,
     LineThickness          |-> 2,
     ShapeColor             |-> <<255, 149, 0, 255>>,
     CollisionEnabled       |-> "QueryAndPhysics",
     CollisionProfileName   |-> "Pawn",
     bGenerateOverlapEvents |-> TRUE,
     Responses              |-> [ch \in Channels |-> "Block"]]

(* The members after construction.  OriginalLineThickness is assigned      *)
(* nowhere in the source file: it keeps its constructed value, which is    *)
(* either zero or the engine's default line thickness.                     *)
InitMembers ==
    /\ capsule = InitialCapsule
    /\ ElapsedTime = 0
    /\ NotifyTotalDuration = 0
    /\ bHasValidOriginals = FALSE
    /\ CapsuleComp = NoCapsule
    /\ OriginalRadius = 0
    /\ OriginalHalfHeight = 0
    /\ OriginalScale = <<0, 0, 0>>
    /\ OriginalLineThickness \in {0, InitialCapsule.LineThickness}
    /\ OriginalShapeColor = <<0, 0, 0, 0>>
    /\ TargetRadius = 0
    /\ TargetHalfHeight = 0
    /\ TargetScale = <<0, 0, 0>>
    /\ TargetLineThickness = 0
    /\ TargetShapeColor = <<0, 0, 0, 0>>
    /\ BlendInAlpha = FAlphaBlend(0, "Linear")
    /\ BlendOutAlpha = FAlphaBlend(0, "Linear")
    /\ OriginalCapsuleSettings = SaveOriginalCollisionSettings(InitialCapsule)
    /\ call = [op |-> "None", acted |-> FALSE]
    /\ pre = InitialCapsule
    /\ tick = NoTick
    /\ begins = 0
    /\ gates = [Radius |-> FALSE, HalfHeight |-> FALSE, Scale |-> FALSE,
                LineThickness |-> FALSE, ShapeColor |-> FALSE]

Init == cfg \in Configs /\ InitMembers

TotalDurations == {0, MaxTotalDuration}

TickWithin(Deltas, MaxElapsed) ==
    \E FrameDeltaTime \in Deltas :
        /\ ElapsedTime + FrameDeltaTime <= MaxElapsed
        /\ NotifyTick(FrameDeltaTime)

Begin == /\ begins < MaxBegins
         /\ \E MeshComp \in MeshComps, TotalDuration \in TotalDurations :
                NotifyBegin(MeshComp, TotalDuration)

Tick == TickWithin(0 .. MaxDeltaTime, MaxElapsedTime)

End == NotifyEnd

Next == Begin \/ Tick \/ End

Spec == Init /\ [][Next]_vars

----------------------------------------------------------------------------
(* The scenario of the specification: a notify of 2.0 s with a blend-in    *)
(* and a blend-out of 0.5 s, linear, no ease curve, the radius modified    *)
(* from 30 to 50; frame steps of 0.25, 0.4, 0.5, 0.75 and 0.9 s.           *)

ScenarioConfig ==
    [BaseConfig EXCEPT !.bModifyRadius = TRUE,
                       !.BlendTimeIn = Second \div 2,
                       !.BlendTimeOut = Second \div 2]

ScenarioTotalDuration == 2 * Second

ScenarioDeltas ==
    {Second \div 4, (2 * Second) \div 5, Second \div 2, (3 * Second) \div 4,
     (9 * Second) \div 10}

InitScenario == cfg = ScenarioConfig /\ InitMembers

ScenarioBegin ==
    /\ begins < MaxBegins
    /\ \E MeshComp \in MeshComps : NotifyBegin(MeshComp, ScenarioTotalDuration)

ScenarioTick == TickWithin(ScenarioDeltas, ScenarioTotalDuration + Second \div 4)

NextScenario == ScenarioBegin \/ ScenarioTick \/ End

SpecScenario == InitScenario /\ [][NextScenario]_vars


----------------------------------------------------------------------------
(* Properties. *)

(* The attributes whose modify flag is set agree in capsules c and d. *)
ModifiedAgree(c, d) ==
    /\ cfg.bModifyRadius => c.CapsuleRadius = d.CapsuleRadius
    /\ cfg.bModifyHalfHeight => c.CapsuleHalfHeight = d.CapsuleHalfHeight
    /\ cfg.bModifyScale => c.RelativeScale3D = d.RelativeScale3D
    /\ cfg.bModifyLineThickness => c.LineThickness = d.LineThickness
    /\ cfg.bModifyShapeColor => c.ShapeColor = d.ShapeColor

(* The attributes whose modify flag is set are at their configured value   *)
(* in capsule c, and the resolved targets are the configured values.       *)
AtResolvedTarget(c) ==
    /\ cfg.bModifyRadius =>
         c.CapsuleRadius = cfg.NewRadius /\ TargetRadius = cfg.NewRadius
    /\ cfg.bModifyHalfHeight =>
         c.CapsuleHalfHeight = cfg.NewHalfHeight /\ TargetHalfHeight = cfg.NewHalfHeight
    /\ cfg.bModifyScale =>
         c.RelativeScale3D = cfg.NewScale /\ TargetScale = cfg.NewScale
    /\ cfg.bModifyLineThickness =>
         c.LineThickness = cfg.NewLineThickness
         /\ TargetLineThickness = cfg.NewLineThickness
    /\ cfg.bModifyShapeColor =>
         c.ShapeColor = ToFColor(cfg.NewShapeColor)
         /\ TargetShapeColor = cfg.NewShapeColor

CollisionAgree(c, d) ==
    /\ c.CollisionEnabled = d.CollisionEnabled
    /\ c.CollisionProfileName = d.CollisionProfileName
    /\ c.bGenerateOverlapEvents = d.bGenerateOverlapEvents
    /\ \A ch \in Channels : c.Responses[ch] = d.Responses[ch]

AnyModify ==
    \/ cfg.bModifyRadius \/ cfg.bModifyHalfHeight \/ cfg.bModifyScale
    \/ cfg.bModifyLineThickness \/ cfg.bModifyShapeColor

(* C1: after a NotifyEnd that ends a session, every attribute whose modify *)
(* flag is set has the value the capsule held just before that session's   *)
(* NotifyBegin, whatever the flags, blend times and ticks were.            *)
C1_EndRestoresModified ==
    (call.op = "End" /\ call.acted) => ModifiedAgree(capsule, pre)

(* C2: after a NotifyEnd that ends a session, the capsule's collision      *)
(* enabled-mode, profile name, overlap flag and every channel's response   *)
(* are those it held just before that session's NotifyBegin.               *)
C2_EndRestoresCollision ==
    (call.op = "End" /\ call.acted) => CollisionAgree(capsule, pre)

C2_Witness ==
    /\ call.op = "End" /\ call.acted
    /\ cfg.CapsuleCollisionSettings.bOverrideCollisionEnabled
    /\ cfg.CapsuleCollisionSettings.bOverrideCustomResponses
    /\ ~cfg.CapsuleCollisionSettings.bOverrideCollisionProfileName
    /\ pre.CollisionEnabled # "QueryOnly"
    /\ pre.Responses[0] # cfg.CapsuleCollisionSettings.CustomResponses[0]

(* C3: a successful NotifyBegin leaves every collision sub-field whose     *)
(* override flag is clear at the value it had just before the call.        *)
C3_BeginScopesCollision ==
    [][(call'.op = "Begin" /\ call'.acted) =>
         LET S == cfg.CapsuleCollisionSettings
         IN  /\ ~S.bOverrideCollisionEnabled =>
                  capsule'.CollisionEnabled = capsule.CollisionEnabled
             /\ ~S.bOverrideCollisionProfileName =>
                  capsule'.CollisionProfileName = capsule.CollisionProfileName
             /\ ~S.bOverrideGenerateOverlapEvents =>
                  capsule'.bGenerateOverlapEvents = capsule.bGenerateOverlapEvents
             /\ ~S.bOverrideCustomResponses =>
                  capsule'.Responses = capsule.Responses]_vars

C3_Witness ==
    /\ call.op = "Begin" /\ call.acted
    /\ cfg.CapsuleCollisionSettings.bOverrideCollisionEnabled
    /\ ~cfg.CapsuleCollisionSettings.bOverrideCollisionProfileName
    /\ ~cfg.CapsuleCollisionSettings.bOverrideCustomResponses
    /\ capsule.CollisionEnabled # pre.CollisionEnabled
    /\ capsule.CollisionProfileName = pre.CollisionProfileName

(* C4: no step of the lifecycle changes an attribute whose modify flag is  *)
(* false.                                                                  *)
C4_UnmodifiedNeverWritten ==
    [][/\ ~cfg.bModifyRadius => capsule'.CapsuleRadius = capsule.CapsuleRadius
       /\ ~cfg.bModifyHalfHeight =>
            capsule'.CapsuleHalfHeight = capsule.CapsuleHalfHeight
       /\ ~cfg.bModifyScale => capsule'.RelativeScale3D = capsule.RelativeScale3D
       /\ ~cfg.bModifyLineThickness => capsule'.LineThickness = capsule.LineThickness
       /\ ~cfg.bModifyShapeColor => capsule'.ShapeColor = capsule.ShapeColor]_vars

C4_Witness ==
    /\ call.op = "End" /\ call.acted
    /\ ElapsedTime = 0 /\ BlendInAlpha.BlendTimeRemaining < BlendInAlpha.BlendTime
    /\ cfg.bModifyRadius /\ cfg.bModifyShapeColor
    /\ ~cfg.bModifyHalfHeight /\ ~cfg.bModifyScale /\ ~cfg.bModifyLineThickness
    /\ capsule.LineThickness = InitialCapsule.LineThickness
    /\ OriginalLineThickness # InitialCapsule.LineThickness

(* C5: while the session is inactive, every call other than a successful   *)
(* NotifyBegin (a NotifyTick, a NotifyEnd, a NotifyBegin that finds no     *)
(* capsule) leaves the capsule as it is and the session inactive.          *)
C5_InactiveCallsAreNoOps ==
    [][(~Active /\ ~(call'.op = "Begin" /\ call'.acted)) =>
         (capsule' = capsule /\ ~Active')]_vars

C5_Witness ==
    /\ ~Active
    /\ call.op \in {"Tick", "End"} /\ ~call.acted
    /\ begins > 0
    /\ capsule # InitialCapsule

(* C6: right after a successful NotifyBegin with a blend-in time at or     *)
(* below the epsilon, every attribute whose modify flag is set is at its   *)
(* configured target on the capsule.                                       *)
C6_InstantBlendInSnaps ==
    (call.op = "Begin" /\ call.acted /\ cfg.BlendTimeIn <= KINDA_SMALL_NUMBER)
        => AtResolvedTarget(capsule)

C6_Witness ==
    /\ call.op = "Begin" /\ call.acted
    /\ cfg.BlendTimeIn = KINDA_SMALL_NUMBER
    /\ cfg.bModifyRadius /\ cfg.bModifyLineThickness /\ cfg.bModifyShapeColor
    /\ capsule.CapsuleRadius # pre.CapsuleRadius
    /\ capsule.ShapeColor # pre.ShapeColor

C8_AlphaMonotone ==
    (call.op = "Tick" /\ call.acted /\ cfg.BlendOptionIn = "Linear"
       /\ cfg.BlendOptionOut = "Linear" /\ cfg.EaseCurve = "None") =>
        /\ tick.phase = "Hold" => tick.alpha = One
        /\ (tick.phase = "BlendIn" /\ tick.prevPhase = "BlendIn") =>
               FracLE(tick.prevAlpha, tick.alpha)
        /\ (tick.phase = "BlendOut" /\ tick.prevPhase = "BlendOut") =>
               FracLE(tick.alpha, tick.prevAlpha)

C8_Witness ==
    /\ call.op = "Tick" /\ call.acted
    /\ cfg.BlendOptionIn = "Linear" /\ cfg.BlendOptionOut = "Linear"
    /\ cfg.EaseCurve = "None"
    /\ tick.phase = "BlendOut" /\ tick.prevPhase = "BlendOut"
    /\ tick.alpha # tick.prevAlpha
    /\ tick.alpha # Zero
    /\ BlendInAlpha.AlphaLerp \notin {Zero, One}

(* C9: with blend-in 0 and blend-out 0 and some modify flag set, every     *)
(* modified attribute is at its target right after NotifyBegin and after   *)
(* every tick, and at its value from before NotifyBegin after NotifyEnd.   *)
C9_ZeroBlendSnapsAndReverts ==
    (cfg.BlendTimeIn = 0 /\ cfg.BlendTimeOut = 0 /\ AnyModify /\ call.acted) =>
        /\ call.op \in {"Begin", "Tick"} => AtResolvedTarget(capsule)
        /\ call.op = "End" => ModifiedAgree(capsule, pre)

(* C10, as stated: the session becomes active only by NotifyBegin and      *)
(* becomes inactive only by NotifyEnd.                                     *)
C10_OnlyEndDeactivates ==
    [][/\ (~Active /\ Active') => call'.op = "Begin"
       /\ (Active /\ ~Active') => call'.op = "End"]_vars

(* C10, amended: the session becomes active only by a NotifyBegin that     *)
(* finds a capsule; it becomes inactive only by NotifyEnd or by a          *)
(* NotifyBegin that finds no capsule, and each of these two leaves it      *)
(* inactive; no NotifyTick changes whether it is active.                   *)
C10_Transitions ==
    [][/\ (~Active /\ Active') => (call'.op = "Begin" /\ call'.acted)
       /\ (Active /\ ~Active') =>
            (call'.op = "End" \/ (call'.op = "Begin" /\ ~call'.acted))
       /\ (call'.op = "End" \/ (call'.op = "Begin" /\ ~call'.acted)) => ~Active'
       /\ call'.op = "Tick" => (Active' <=> Active)]_vars

C10_Witness ==
    /\ call.op = "Begin" /\ ~call.acted
    /\ ~Active
    /\ begins = 2
    /\ cfg.bModifyRadius
    /\ pre.CapsuleRadius # cfg.NewRadius
    /\ capsule.CapsuleRadius = cfg.NewRadius

(* C11: with a linear blend-out and no ease curve, the alpha of a tick     *)
(* that lands in the blend-out phase is 1 - OutElapsed / BlendTimeOut,     *)
(* clamped to [0, 1], where OutElapsed is the time elapsed since the       *)
(* phase was entered, ElapsedTime - (NotifyTotalDuration - BlendTimeOut).  *)
(* Stated for windows that do not overlap, where the phase is entered at   *)
(* NotifyTotalDuration - BlendTimeOut.                                     *)
C11_BlendOutFollowsOutElapsed ==
    (call.op = "Tick" /\ call.acted /\ tick.phase = "BlendOut"
       /\ cfg.BlendOptionOut = "Linear" /\ cfg.EaseCurve = "None"
       /\ cfg.BlendTimeIn + cfg.BlendTimeOut <= NotifyTotalDuration) =>
        tick.alpha =
            Clamp01(OneMinus(Frac(ElapsedTime - (NotifyTotalDuration - cfg.BlendTimeOut),
                                  cfg.BlendTimeOut)))

(* C12: right after a successful NotifyBegin each of the five stored       *)
(* originals is the value the capsule held just before the call, and the   *)
(* target of every attribute whose modify flag is false is that original.  *)
C12_BeginCapturesOriginals ==
    (call.op = "Begin" /\ call.acted) =>
        /\ OriginalRadius = pre.CapsuleRadius
        /\ OriginalHalfHeight = pre.CapsuleHalfHeight
        /\ OriginalScale = pre.RelativeScale3D
        /\ OriginalLineThickness = pre.LineThickness
        /\ OriginalShapeColor = ReinterpretAsLinear(pre.ShapeColor)
        /\ ~cfg.bModifyRadius => TargetRadius = OriginalRadius
        /\ ~cfg.bModifyHalfHeight => TargetHalfHeight = OriginalHalfHeight
        /\ ~cfg.bModifyScale => TargetScale = OriginalScale
        /\ ~cfg.bModifyLineThickness => TargetLineThickness = OriginalLineThickness
        /\ ~cfg.bModifyShapeColor => TargetShapeColor = OriginalShapeColor

(* C13, as stated: when the blend-in and blend-out times together exceed   *)
(* the total duration, every tick whose elapsed time is at or past the     *)
(* blend-in time takes raw alpha 1.                                        *)
C13_OverlapUsesHold ==
    (call.op = "Tick" /\ call.acted
       /\ cfg.BlendTimeIn + cfg.BlendTimeOut > NotifyTotalDuration
       /\ ElapsedTime >= cfg.BlendTimeIn) =>
        tick.raw = One

(* C13, amended: when the blend-in and blend-out times together exceed the *)
(* total duration, a tick whose elapsed time is at or past the blend-in    *)
(* time never selects the hold phase: with a blend-out time above the      *)
(* epsilon it selects the blend-out phase and its raw alpha is 1 minus the *)
(* blend-out evaluator's value; otherwise it falls through to raw alpha 1. *)
C13_OverlapUsesBlendOut ==
    (call.op = "Tick" /\ call.acted
       /\ cfg.BlendTimeIn + cfg.BlendTimeOut > NotifyTotalDuration
       /\ ElapsedTime >= cfg.BlendTimeIn) =>
        /\ tick.phase # "Hold"
        /\ cfg.BlendTimeOut > KINDA_SMALL_NUMBER =>
             /\ tick.phase = "BlendOut"
             /\ tick.raw = Clamp01(OneMinus(GetBlendedValue(BlendOutAlpha)))
        /\ cfg.BlendTimeOut <= KINDA_SMALL_NUMBER =>
             (tick.phase = "Fallback" /\ tick.raw = One)

C13_Witness ==
    /\ call.op = "Tick" /\ call.acted
    /\ cfg.BlendTimeIn > KINDA_SMALL_NUMBER
    /\ cfg.BlendTimeIn + cfg.BlendTimeOut > NotifyTotalDuration
    /\ NotifyTotalDuration > 0
    /\ ElapsedTime >= cfg.BlendTimeIn
    /\ tick.phase = "BlendOut"
    /\ tick.raw \notin {Zero, One}
    /\ cfg.bModifyRadius
    /\ capsule.CapsuleRadius # TargetRadius

(* C14: a tick whose elapsed time is exactly NotifyTotalDuration -         *)
(* BlendTimeOut and at least the blend-in time selects the hold phase,     *)
(* takes raw alpha 1 and does not advance the blend-out evaluator; a tick  *)
(* whose elapsed time is exactly the blend-in time does not select the     *)
(* blend-in phase.                                                         *)
C14_FirstMatchWins ==
    [][(call'.op = "Tick" /\ call'.acted) =>
         /\ (ElapsedTime' = NotifyTotalDuration - cfg.BlendTimeOut
               /\ ElapsedTime' >= cfg.BlendTimeIn) =>
              /\ tick'.phase = "Hold"
              /\ tick'.raw = One
              /\ BlendOutAlpha' = BlendOutAlpha
         /\ ElapsedTime' = cfg.BlendTimeIn => tick'.phase # "BlendIn"]_vars

C14_Witness ==
    /\ call.op = "Tick" /\ call.acted
    /\ cfg.BlendTimeIn > KINDA_SMALL_NUMBER
    /\ cfg.BlendTimeOut > KINDA_SMALL_NUMBER
    /\ ElapsedTime = NotifyTotalDuration - cfg.BlendTimeOut
    /\ ElapsedTime = cfg.BlendTimeIn
    /\ tick.phase = "Hold"
    /\ tick.prevPhase = "BlendIn"
    /\ BlendOutAlpha.AlphaLerp = Zero

(* The collision sub-fields whose override flag is set are at their        *)
(* configured values in capsule c.                                         *)
OverridesApplied(c) ==
    LET S == cfg.CapsuleCollisionSettings
    IN  /\ S.bOverrideCollisionEnabled =>
             c.CollisionEnabled =
                 IF S.bForceQueryOnly THEN "QueryOnly" ELSE S.CollisionEnabled
        /\ S.bOverrideCollisionProfileName =>
             c.CollisionProfileName = S.CollisionProfileName
        /\ S.bOverrideGenerateOverlapEvents =>
             c.bGenerateOverlapEvents = S.bGenerateOverlapEvents
        /\ S.bOverrideCustomResponses =>
             \A ch \in DOMAIN S.CustomResponses :
                 c.Responses[ch] = S.CustomResponses[ch]

(* C15: a successful NotifyBegin writes the collision overrides whatever   *)
(* the blend-in time is, and no NotifyTick changes any collision           *)
(* sub-field of the capsule.                                               *)
C15_CollisionIsStep ==
    [][/\ (call'.op = "Begin" /\ call'.acted) => OverridesApplied(capsule')
       /\ call'.op = "Tick" =>
            (CollisionAgree(capsule', capsule)
               /\ (OverridesApplied(capsule) => OverridesApplied(capsule')))]_vars

C15_Witness ==
    /\ call.op = "Tick" /\ call.acted
    /\ tick.phase = "BlendIn" /\ tick.prevPhase = "BlendIn"
    /\ cfg.BlendTimeIn > KINDA_SMALL_NUMBER
    /\ cfg.CapsuleCollisionSettings.bOverrideGenerateOverlapEvents
    /\ cfg.CapsuleCollisionSettings.bOverrideCollisionEnabled
    /\ capsule.CollisionEnabled # pre.CollisionEnabled
    /\ capsule.bGenerateOverlapEvents # pre.bGenerateOverlapEvents
    /\ capsule.CapsuleRadius # pre.CapsuleRadius

(* C18: with the collision-enabled override set, a successful NotifyBegin  *)
(* writes QueryOnly when bForceQueryOnly is set, whatever the configured   *)
(* mode is, and the configured mode when it is not set.                    *)
C18_ForceQueryOnly ==
    (call.op = "Begin" /\ call.acted
       /\ cfg.CapsuleCollisionSettings.bOverrideCollisionEnabled) =>
        /\ cfg.CapsuleCollisionSettings.bForceQueryOnly =>
             capsule.CollisionEnabled = "QueryOnly"
        /\ ~cfg.CapsuleCollisionSettings.bForceQueryOnly =>
             capsule.CollisionEnabled = cfg.CapsuleCollisionSettings.CollisionEnabled

C18_Witness ==
    /\ call.op = "Begin" /\ call.acted
    /\ cfg.CapsuleCollisionSettings.bOverrideCollisionEnabled
    /\ cfg.CapsuleCollisionSettings.bForceQueryOnly
    /\ cfg.CapsuleCollisionSettings.CollisionEnabled # "QueryOnly"
    /\ pre.CollisionEnabled # "QueryOnly"
    /\ capsule.CollisionEnabled = "QueryOnly"

(* v lies between a and b, inclusive, whichever of a and b is larger. *)
Between(v, a, b) == (a <= v /\ v <= b) \/ (b <= v /\ v <= a)

(* C17: after every tick of an active session the final alpha is in        *)
(* [0,1] and each modified scalar attribute is the lerp, at that alpha, of *)
(* its value before NotifyBegin and its resolved target, hence lies        *)
(* between the two.                                                        *)
C17_TickLerpsWithinRange ==
    (call.op = "Tick" /\ call.acted) =>
        /\ FracLE(Zero, tick.alpha) /\ FracLE(tick.alpha, One)
        /\ cfg.bModifyRadius =>
             /\ capsule.CapsuleRadius =
                    Lerp(pre.CapsuleRadius, TargetRadius, tick.alpha)
             /\ Between(capsule.CapsuleRadius, pre.CapsuleRadius, TargetRadius)
        /\ cfg.bModifyHalfHeight =>
             /\ capsule.CapsuleHalfHeight =
                    Lerp(pre.CapsuleHalfHeight, TargetHalfHeight, tick.alpha)
             /\ Between(capsule.CapsuleHalfHeight, pre.CapsuleHalfHeight,
                        TargetHalfHeight)
        /\ cfg.bModifyLineThickness =>
             /\ capsule.LineThickness =
                    Lerp(pre.LineThickness, TargetLineThickness, tick.alpha)
             /\ Between(capsule.LineThickness, pre.LineThickness,
                        TargetLineThickness)

(* C19: no tick changes a stored original, a resolved target, the total    *)
(* duration or the collision snapshot; between a successful NotifyBegin    *)
(* and the next NotifyEnd they stay as NotifyBegin set them.               *)
C19_TickKeepsSnapshot ==
    [][call'.op = "Tick" =>
         UNCHANGED <<NotifyTotalDuration, OriginalRadius, OriginalHalfHeight,
                     OriginalScale, OriginalLineThickness, OriginalShapeColor,
                     TargetRadius, TargetHalfHeight, TargetScale,
                     TargetLineThickness, TargetShapeColor,
                     OriginalCapsuleSettings>>]_vars

C19_Witness ==
    /\ call.op = "Tick" /\ call.acted
    /\ tick.prevPhase = "BlendIn" /\ tick.phase = "Hold"
    /\ cfg.bModifyRadius
    /\ capsule.CapsuleRadius = TargetRadius
    /\ OriginalRadius = pre.CapsuleRadius
    /\ OriginalRadius # capsule.CapsuleRadius
    /\ OriginalCapsuleSettings = SaveOriginalCollisionSettings(pre)

(* C20: with a linear blend-in and no ease curve, after every tick that    *)
(* lands in the blend-in phase the blend-in evaluator's progress is the    *)
(* session's elapsed time over the blend-in time, and so is the alpha,     *)
(* however the elapsed time was split into ticks.                          *)
C20_LinearBlendInFollowsElapsed ==
    (call.op = "Tick" /\ call.acted /\ tick.phase = "BlendIn"
       /\ cfg.BlendOptionIn = "Linear" /\ GetNumKeys(cfg.EaseCurve) = 0) =>
        /\ BlendInAlpha.AlphaLerp = Frac(ElapsedTime, cfg.BlendTimeIn)
        /\ BlendInAlpha.BlendTimeRemaining = cfg.BlendTimeIn - ElapsedTime
        /\ tick.alpha = Frac(ElapsedTime, cfg.BlendTimeIn)

C20_Witness ==
    /\ call.op = "Tick" /\ call.acted
    /\ tick.phase = "BlendIn" /\ tick.prevPhase = "BlendIn"
    /\ cfg.BlendOptionIn = "Linear" /\ GetNumKeys(cfg.EaseCurve) = 0
    /\ tick.prevAlpha = <<1, 3>> /\ tick.alpha = <<2, 3>>
    /\ ElapsedTime = 2

----------------------------------------------------------------------------
(* A configuration changed in mid-flight: the bModify flags are members of *)
(* the notify object, which NotifyTick and NotifyEnd read when they run.   *)

ReconfigConfigs ==
    { [BaseConfig EXCEPT !.bModifyRadius = r, !.bModifyHalfHeight = h,
                         !.BlendTimeIn = i] :
        r \in BOOLEAN, h \in BOOLEAN, i \in {0, MaxBlendTime} }

InitReconfig == cfg \in ReconfigConfigs /\ InitMembers

(* The owner of the notify writes one of its modify flags. *)
SetModifyFlag ==
    \E Flag \in {"bModifyRadius", "bModifyHalfHeight"} :
        /\ cfg' = [cfg EXCEPT ![Flag] = ~cfg[Flag]]
        /\ call' = [op |-> "SetModifyFlag", acted |-> TRUE]
        /\ UNCHANGED <<capsule, session, pre, tick, begins, gates>>

NextReconfig == Begin \/ Tick \/ End \/ SetModifyFlag

SpecReconfig == InitReconfig /\ [][NextReconfig]_vars

(* C16: the modify gates are those of NotifyBegin: whatever flag is        *)
(* changed afterwards, a NotifyEnd that ends the session leaves every      *)
(* attribute that was flagged at NotifyBegin at its value from before      *)
(* NotifyBegin.                                                            *)
C16_GatesFixedAtBegin ==
    (call.op = "End" /\ call.acted) =>
        /\ gates.Radius => capsule.CapsuleRadius = pre.CapsuleRadius
        /\ gates.HalfHeight => capsule.CapsuleHalfHeight = pre.CapsuleHalfHeight
        /\ gates.Scale => capsule.RelativeScale3D = pre.RelativeScale3D

====
